---- MODULE Spec2Model ----
(***************************************************************************)
(* Model of compress.py: convert_audio, _get_format_settings,              *)
(* _single_convert and _batch_convert.                                     *)
(*                                                                         *)
(* A Python str is a sequence of one-character strings, so that lower(),   *)
(* endswith(), splitext(), basename(), join() and str(int) are computed    *)
(* the way Python computes them.  A bytes object is a sequence of          *)
(* integers 0..255.  An optional argument is None (the empty sequence) or  *)
(* Some(v) (the one-element sequence <<v>>).                               *)
(***************************************************************************)
EXTENDS Integers, Sequences, FiniteSets, TLC

VARIABLES pc, call, fs, audio_files, i, successful_conversions, calls,
          result, format_settings

vars == <<pc, call, fs, audio_files, i, successful_conversions, calls,
          result, format_settings>>

---------------------------------------------------------------------------
(* Bounds of the model.                                                    *)

\* compression levels are drawn from -MaxLevel..MaxLevel
MaxLevel == 12

\* a directory listing holds at most MaxFiles entries
MaxFiles == 3

---------------------------------------------------------------------------
(* Python values.                                                          *)

None == <<>>

Some(v) == <<v>>

\* truth value of an optional int: None and 0 are false
TruthyInt(o) == o # None /\ o[1] # 0

\* truth value of an optional list: None and [] are false
TruthySeq(o) == o # None /\ o[1] # <<>>

\* the lower-case letter of each upper-case ASCII letter
LowerMap ==
  [A |-> "a", B |-> "b", C |-> "c", D |-> "d", E |-> "e", F |-> "f",
   G |-> "g", H |-> "h", I |-> "i", J |-> "j", K |-> "k", L |-> "l",
   M |-> "m", N |-> "n", O |-> "o", P |-> "p", Q |-> "q", R |-> "r",
   S |-> "s", T |-> "t", U |-> "u", V |-> "v", W |-> "w", X |-> "x",
   Y |-> "y", Z |-> "z"]

LowerChar(c) == IF c \in DOMAIN LowerMap THEN LowerMap[c] ELSE c

\* str.lower()
Lower(s) == [k \in 1..Len(s) |-> LowerChar(s[k])]

\* str.endswith(suffix)
EndsWith(s, suffix) ==
  /\ Len(suffix) <= Len(s)
  /\ SubSeq(s, Len(s) - Len(suffix) + 1, Len(s)) = suffix

\* str.rfind(c) for a one-character c, as a 1-based index, 0 when absent
RFind(s, c) ==
  IF \E k \in 1..Len(s) : s[k] = c
  THEN CHOOSE k \in 1..Len(s) : s[k] = c /\ \A m \in (k+1)..Len(s) : s[m] # c
  ELSE 0

Digits == <<"0","1","2","3","4","5","6","7","8","9">>

RECURSIVE StrNat(_)
StrNat(n) ==
  IF n < 10 THEN <<Digits[n + 1]>>
  ELSE StrNat(n \div 10) \o <<Digits[(n % 10) + 1]>>

\* str(n) for an int n
Str(n) == IF n < 0 THEN <<"-">> \o StrNat(0 - n) ELSE StrNat(n)

Max(a, b) == IF a >= b THEN a ELSE b

Min(a, b) == IF a <= b THEN a ELSE b

---------------------------------------------------------------------------
(* os.path on POSIX.                                                       *)

\* os.path.splitext(p)[0]: cut at the last dot of the last component,
\* unless that component has only leading dots before it
SplitextRoot(p) ==
  LET sepIndex == RFind(p, "/")
      dotIndex == RFind(p, ".")
  IN  IF /\ dotIndex > sepIndex
         /\ \E k \in (sepIndex + 1)..(dotIndex - 1) : p[k] # "."
      THEN SubSeq(p, 1, dotIndex - 1)
      ELSE p

\* os.path.basename(p)
Basename(p) == SubSeq(p, RFind(p, "/") + 1, Len(p))

\* os.path.join(a, b)
Join(a, b) ==
  IF Len(b) > 0 /\ b[1] = "/" THEN b
  ELSE IF a = <<>> \/ a[Len(a)] = "/" THEN a \o b
  ELSE a \o <<"/">> \o b

\* one path component against one glob pattern of literals, ? and *
RECURSIVE GlobMatch(_, _)
GlobMatch(pat, s) ==
  IF pat = <<>> THEN s = <<>>
  ELSE IF pat[1] = "*"
       THEN \/ GlobMatch(Tail(pat), s)
            \/ s # <<>> /\ GlobMatch(pat, Tail(s))
  ELSE IF s = <<>> THEN FALSE
  ELSE /\ pat[1] = "?" \/ pat[1] = s[1]
       /\ GlobMatch(Tail(pat), Tail(s))

---------------------------------------------------------------------------
(* bytes.decode(): strict UTF-8.                                           *)

Continuation(b) == b >= 128 /\ b <= 191

\* number of bytes of the well-formed sequence that starts bs, 0 if none
Utf8Width(bs) ==
  LET b == bs[1]
      n == Len(bs)
  IN  IF b <= 127 THEN 1
      ELSE IF b >= 194 /\ b <= 223
           THEN IF n >= 2 /\ Continuation(bs[2]) THEN 2 ELSE 0
      ELSE IF b >= 224 /\ b <= 239
           THEN IF /\ n >= 3
                   /\ Continuation(bs[2])
                   /\ Continuation(bs[3])
                   /\ (b = 224 => bs[2] >= 160)
                   /\ (b = 237 => bs[2] <= 159)
                THEN 3 ELSE 0
      ELSE IF b >= 240 /\ b <= 244
           THEN IF /\ n >= 4
                   /\ Continuation(bs[2])
                   /\ Continuation(bs[3])
                   /\ Continuation(bs[4])
                   /\ (b = 240 => bs[2] >= 144)
                   /\ (b = 244 => bs[2] <= 143)
                THEN 4 ELSE 0
      ELSE 0

\* TRUE when bs.decode() returns, FALSE when it raises UnicodeDecodeError
RECURSIVE Decodes(_)
Decodes(bs) ==
  IF bs = <<>> THEN TRUE
  ELSE LET w == Utf8Width(bs)
       IN  IF w = 0 THEN FALSE
           ELSE Decodes(SubSeq(bs, w + 1, Len(bs)))

---------------------------------------------------------------------------
(* String literals of compress.py.                                         *)

S_flac == <<"f","l","a","c">>

S_mp3 == <<"m","p","3">>

S_m4a == <<"m","4","a">>

S_wav == <<"w","a","v">>

S_ogg == <<"o","g","g">>

S_aac == <<"a","a","c">>

S_wma == <<"w","m","a">>

S_alac == <<"a","l","a","c">>

S_ffmpeg == <<"f","f","m","p","e","g">>

S_i == <<"-","i">>

S_ca == <<"-","c",":","a">>

S_compression_level == <<"-","c","o","m","p","r","e","s","s","i","o","n","_","l","e","v","e","l">>

S_qa == <<"-","q",":","a">>

S_ba == <<"-","b",":","a">>

S_ar == <<"-","a","r">>

S_ac == <<"-","a","c">>

S_sample_fmt == <<"-","s","a","m","p","l","e","_","f","m","t">>

S_s16 == <<"s","1","6">>

S_s32 == <<"s","3","2">>

S_libmp3lame == <<"l","i","b","m","p","3","l","a","m","e">>

S_libvorbis == <<"l","i","b","v","o","r","b","i","s">>

S_copy == <<"c","o","p","y">>

S_pcm_s16le == <<"p","c","m","_","s","1","6","l","e">>

S_pcm_s24le == <<"p","c","m","_","s","2","4","l","e">>

S_pcm_s32le == <<"p","c","m","_","s","3","2","l","e">>

S_128k == <<"1","2","8","k">>

format_extensions ==
  << <<S_flac, <<".">> \o S_flac>>,
     <<S_mp3, <<".">> \o S_mp3>>,
     <<S_m4a, <<".">> \o S_m4a>>,
     <<S_wav, <<".">> \o S_wav>>,
     <<S_ogg, <<".">> \o S_ogg>>,
     <<S_aac, <<".">> \o S_aac>>,
     <<S_wma, <<".">> \o S_wma>>,
     <<S_alac, <<".">> \o S_m4a>> >>

bitrates ==
  << <<0, <<"3","8","4","k">>>>,
     <<1, <<"3","2","0","k">>>>,
     <<2, <<"2","5","6","k">>>>,
     <<3, <<"2","2","4","k">>>>,
     <<4, <<"1","9","2","k">>>>,
     <<5, <<"1","6","0","k">>>>,
     <<6, <<"1","2","8","k">>>>,
     <<7, <<"1","1","2","k">>>>,
     <<8, <<"9","6","k">>>>,
     <<9, <<"6","4","k">>>> >>


\* dict.get(key, default) on a dict written as a sequence of <<key, value>>
DictGet(d, key, default) ==
  IF \E k \in 1..Len(d) : d[k][1] = key
  THEN d[CHOOSE k \in 1..Len(d) : d[k][1] = key][2]
  ELSE default

\* format_extensions.get(output_format.lower(), f'.{output_format}')
output_extension(output_format) ==
  DictGet(format_extensions, Lower(output_format), <<".">> \o output_format)

---------------------------------------------------------------------------
(* _get_format_settings(output_format, compression_level)                  *)

\* the clamp without its lower end
QualityNoFloor(compression_level) == Min(9, compression_level)

\* lines 61 and 84: max(0, min(9, compression_level))
Quality(compression_level) == Max(0, Min(9, compression_level))

get_format_settings(output_format, compression_level) ==
  LET fmt == Lower(output_format)
      given == compression_level # None
      level == compression_level[1]
  IN  IF fmt = S_flac
      THEN [codec |-> <<S_ca, S_flac>>,
            format_args |-> IF given
                            THEN <<S_compression_level, Str(level)>>
                            ELSE <<>>]
      ELSE IF fmt = S_mp3
      THEN [codec |-> <<S_ca, S_libmp3lame>>,
            format_args |-> IF given
                            THEN <<S_qa, Str(Quality(level))>>
                            ELSE <<>>]
      ELSE IF fmt = S_m4a
      THEN [codec |-> <<S_ca, S_aac>>,
            format_args |-> IF given
                            THEN <<S_ba, DictGet(bitrates, level, S_128k)>>
                            ELSE <<>>]
      ELSE IF fmt = S_wav
      THEN [codec |-> <<S_ca, S_pcm_s16le>>, format_args |-> <<>>]
      ELSE IF fmt = S_ogg
      THEN [codec |-> <<S_ca, S_libvorbis>>,
            format_args |-> IF given
                            THEN <<S_qa, Str(Quality(level))>>
                            ELSE <<>>]
      ELSE [codec |-> <<S_ca, S_copy>>, format_args |-> <<>>]

---------------------------------------------------------------------------
(* _single_convert: the command line.                                      *)

\* lines 127-128
SampleRateArgs(sample_rate) ==
  IF TruthyInt(sample_rate) THEN <<S_ar, Str(sample_rate[1])>> ELSE <<>>

\* lines 131-132
ChannelArgs(channels) ==
  IF TruthyInt(channels) THEN <<S_ac, Str(channels[1])>> ELSE <<>>

\* the override with the format compared as spelled, and with a 24-bit wav
\* request left to the resolver's codec
BitDepthArgsCaseSensitive(output_format, bit_depth) ==
  LET depth == bit_depth[1]
  IN  IF TruthyInt(bit_depth) /\ output_format \in {S_flac, S_wav}
      THEN IF output_format = S_flac
           THEN IF depth = 16 THEN <<S_sample_fmt, S_s16>>
                ELSE IF depth = 24 THEN <<S_sample_fmt, S_s32>>
                ELSE IF depth = 32 THEN <<S_sample_fmt, S_s32>>
                ELSE <<>>
           ELSE IF depth = 16 THEN <<S_ca, S_pcm_s16le>>
                ELSE IF depth = 32 THEN <<S_ca, S_pcm_s32le>>
                ELSE <<>>
      ELSE <<>>

\* lines 135-149
BitDepthArgs(output_format, bit_depth) ==
  LET fmt == Lower(output_format)
      depth == bit_depth[1]
  IN  IF TruthyInt(bit_depth) /\ fmt \in {S_flac, S_wav}
      THEN IF fmt = S_flac
           THEN IF depth = 16 THEN <<S_sample_fmt, S_s16>>
                ELSE IF depth = 24 THEN <<S_sample_fmt, S_s32>>
                ELSE IF depth = 32 THEN <<S_sample_fmt, S_s32>>
                ELSE <<>>
           ELSE IF depth = 16 THEN <<S_ca, S_pcm_s16le>>
                ELSE IF depth = 24 THEN <<S_ca, S_pcm_s24le>>
                ELSE IF depth = 32 THEN <<S_ca, S_pcm_s32le>>
                ELSE <<>>
      ELSE <<>>

\* lines 152-153
ExtraArgs(extra_args) ==
  IF TruthySeq(extra_args) THEN extra_args[1] ELSE <<>>

\* the extension appended to the whole input path
OutputFileAppended(input_file, output_format, output_file) ==
  IF output_file = None
  THEN input_file \o output_extension(output_format)
  ELSE output_file[1]

\* lines 113-116: the output file of _single_convert
OutputFile(input_file, output_format, output_file) ==
  IF output_file = None
  THEN SplitextRoot(input_file) \o output_extension(output_format)
  ELSE output_file[1]

\* the extra arguments added before the computed ones
BuildCmdExtraFirst(input_file, output_file, a) ==
  LET settings == get_format_settings(a.output_format, a.compression_level)
  IN  <<S_ffmpeg, S_i, input_file>>
        \o settings.codec
        \o ExtraArgs(a.extra_args)
        \o settings.format_args
        \o SampleRateArgs(a.sample_rate)
        \o ChannelArgs(a.channels)
        \o BitDepthArgs(a.output_format, a.bit_depth)
        \o <<OutputFile(input_file, a.output_format, output_file)>>

\* lines 119-156: cmd as handed to subprocess.run
BuildCmd(input_file, output_file, a) ==
  LET settings == get_format_settings(a.output_format, a.compression_level)
  IN  <<S_ffmpeg, S_i, input_file>>
        \o settings.codec
        \o settings.format_args
        \o SampleRateArgs(a.sample_rate)
        \o ChannelArgs(a.channels)
        \o BitDepthArgs(a.output_format, a.bit_depth)
        \o ExtraArgs(a.extra_args)
        \o <<OutputFile(input_file, a.output_format, output_file)>>

---------------------------------------------------------------------------
(* The inputs: arguments of the calls, the filesystem, the tool's outcome. *)

\* output formats: the eight of format_extensions, some in other letter
\* cases, and one format the tables do not know, in two letter cases
Formats ==
  { S_flac, <<"F","L","A","C">>, S_mp3, <<"M","p","3">>, S_m4a, S_wav,
    <<"W","a","v">>, S_ogg, <<"O","G","G">>, S_aac, S_wma, S_alac,
    <<"o","p","u","s">>, <<"O","P","U","S">> }

Levels == {None} \cup { Some(n) : n \in (0 - MaxLevel)..MaxLevel }

\* compression levels of the convert_audio calls: absent, the default, the
\* largest of Levels
CallLevels == {None, Some(5), Some(MaxLevel)}

SampleRates == {None, Some(44100)}

Channels == {None, Some(2)}

BitDepths == {None, Some(8), Some(16), Some(24), Some(32)}

ExtraArgLists == {None, Some(<<>>), Some(<<<<"-","v","n">>, <<"-","y">>>>)}

\* the directory convert_audio is called on
InputDir == <<"d">>

OtherDir == <<"o">>

\* regular files that exist
ExistingFiles ==
  { <<"s","o","n","g",".","w","a","v">>,
    <<".","r","c">>,
    <<"x",".","y","/","z">> }

\* a path with nothing at it
MissingFile == <<"g","o","n","e",".","w","a","v">>

SingleOutputs == {None, Some(<<"o","u","t",".","b","i","n">>)}

\* entries a directory listing is made of; l.wav is a dangling symlink,
\* which the directory lists and os.path.exists denies
Entries ==
  { [name |-> <<"a",".","w","a","v">>, exists |-> TRUE],
    [name |-> <<"b",".","f","l","a","c">>, exists |-> TRUE],
    [name |-> <<"e",".","F","L","A","C">>, exists |-> TRUE],
    [name |-> <<"c",".","O","P","U","S">>, exists |-> TRUE],
    [name |-> <<"l",".","w","a","v">>, exists |-> FALSE] }

\* listings in every enumeration order, no name twice
Listings ==
  { l \in UNION { [1..n -> Entries] : n \in 0..MaxFiles } :
      \A j, k \in 1..Len(l) : j # k => l[j] # l[k] }

OutputDirs == {None, Some(OtherDir), Some(InputDir)}

FilePatterns ==
  { <<"*",".","*">>, <<"*",".","w","a","v">>, <<"*",".","m","p","3">> }

\* bytes the tool may leave on its error stream: ASCII, a two-byte
\* character, a two-byte character cut short
Stderrs == { <<69>>, <<195, 169>>, <<69, 195>> }

\* what subprocess.run meets: the tool's exit status and, when it is not
\* zero, the bytes of its error stream (e.stderr)
ToolOutcomes ==
  {[returncode |-> 0, stderr |-> <<>>]}
    \cup { [returncode |-> 1, stderr |-> s] : s \in Stderrs }

---------------------------------------------------------------------------
(* The filesystem.                                                         *)

\* os.path.isdir(p)
IsDir(p) == p \in fs.dirs

\* a check that finds every path
ExistsAlways(p) == p = p

\* os.path.exists(p)
Exists(p) ==
  \/ p \in fs.files
  \/ p \in fs.dirs
  \/ \E k \in 1..Len(fs.listing) :
        /\ Join(InputDir, fs.listing[k].name) = p
        /\ fs.listing[k].exists

\* every entry of the directory, whatever the pattern
GlobEveryEntry(listing, file_pattern) ==
  [k \in 1..Len(listing) |-> Join(InputDir, listing[k].name)]

\* list(Path(input_dir).glob(file_pattern)), as str(audio_file), in the
\* order the directory enumerates its entries
RECURSIVE Glob(_, _)
Glob(listing, file_pattern) ==
  IF listing = <<>> THEN <<>>
  ELSE (IF GlobMatch(file_pattern, Head(listing).name)
        THEN <<Join(InputDir, Head(listing).name)>>
        ELSE <<>>) \o Glob(Tail(listing), file_pattern)

---------------------------------------------------------------------------
(* _single_convert(input_file, ..., output_file, ...) as one step: what it *)
(* did and how it ended, given what subprocess.run meets.                  *)

\* ended: "returned" or "raised"; ret: the value returned, None or
\* Some(output_file); invoked: whether subprocess.run ran the tool; stderr:
\* the bytes whose decoding raised (the bytes that decode are printed and
\* kept nowhere)
single_convert(input_file, output_file, a, tool) ==
  LET out == OutputFile(input_file, a.output_format, output_file)
      cmd == BuildCmd(input_file, output_file, a)
  IN  IF ~Exists(input_file)
      THEN [input_file |-> input_file, output_file |-> out,
            invoked |-> FALSE, cmd |-> <<>>, returncode |-> 0,
            stderr |-> <<>>, ended |-> "returned", ret |-> None]
      ELSE IF tool.returncode = 0
      THEN [input_file |-> input_file, output_file |-> out,
            invoked |-> TRUE, cmd |-> cmd, returncode |-> 0,
            stderr |-> <<>>, ended |-> "returned", ret |-> Some(out)]
      ELSE IF Decodes(tool.stderr)
      THEN [input_file |-> input_file, output_file |-> out,
            invoked |-> TRUE, cmd |-> cmd, returncode |-> tool.returncode,
            stderr |-> <<>>, ended |-> "returned", ret |-> None]
      ELSE [input_file |-> input_file, output_file |-> out,
            invoked |-> TRUE, cmd |-> cmd, returncode |-> tool.returncode,
            stderr |-> tool.stderr, ended |-> "raised", ret |-> None]

---------------------------------------------------------------------------
(* The state machine.                                                      *)

\* the arguments of a call, with the defaults of the signatures
Args(fn, input_path, output_format, output_path, compression_level, sample_rate, channels, bit_depth, extra_args, file_pattern) ==
  [fn |-> fn, input_path |-> input_path, output_format |-> output_format,
   output_path |-> output_path, compression_level |-> compression_level,
   sample_rate |-> sample_rate, channels |-> channels,
   bit_depth |-> bit_depth, extra_args |-> extra_args,
   file_pattern |-> file_pattern]

NoCall ==
  Args("none", <<>>, S_flac, None, Some(5), None, None, None, None,
       <<"*",".","*">>)

\* a returned value: None, a str, or a list of str
RetNone == [tag |-> "None", val |-> <<>>]

RetStr(s) == [tag |-> "str", val |-> s]

RetList(l) == [tag |-> "list", val |-> l]

\* the filesystem in which InputDir lists the entries of listing
Filesystem(listing) ==
  [files |-> ExistingFiles, dirs |-> {InputDir}, listing |-> listing]

\* before any call, over a filesystem whose directory lists `listing`
Idle(listing) ==
  /\ pc = "idle"
  /\ call = NoCall
  /\ fs = Filesystem(listing)
  /\ audio_files = <<>>
  /\ i = 0
  /\ successful_conversions = <<>>
  /\ calls = <<>>
  /\ result = RetNone
  /\ format_settings = [codec |-> <<>>, format_args |-> <<>>]

\* _get_format_settings(output_format, compression_level), called alone
GetFormatSettings ==
  /\ pc = "idle"
  /\ \E output_format \in Formats, compression_level \in Levels :
       /\ call' = Args("_get_format_settings", <<>>, output_format, None,
                       compression_level, None, None, None, None,
                       <<"*",".","*">>)
       /\ format_settings' =
            get_format_settings(output_format, compression_level)
  /\ pc' = "resolved"
  /\ UNCHANGED <<fs, audio_files, i, successful_conversions, calls, result>>

\* convert_audio(input_path, ...) on a path that is no directory: lines
\* 36-40, and the whole of _single_convert
ConvertAudioFile ==
  /\ pc = "idle"
  /\ \E input_path \in ExistingFiles \cup {MissingFile},
        output_format \in Formats,
        output_path \in SingleOutputs,
        compression_level \in CallLevels,
        sample_rate \in SampleRates,
        channels \in Channels,
        bit_depth \in BitDepths,
        extra_args \in ExtraArgLists,
        tool \in ToolOutcomes :
       LET a == Args("convert_audio", input_path, output_format, output_path,
                     compression_level, sample_rate, channels, bit_depth,
                     extra_args, <<"*",".","*">>)
           r == single_convert(input_path, output_path, a, tool)
       IN  /\ ~IsDir(input_path)
           /\ call' = a
           /\ calls' = <<r>>
           /\ IF r.ended = "raised"
              THEN pc' = "raised" /\ UNCHANGED result
              ELSE /\ pc' = "done"
                   /\ result' = IF r.ret = None THEN RetNone
                                ELSE RetStr(r.ret[1])
  /\ UNCHANGED <<fs, audio_files, i, successful_conversions, format_settings>>

\* convert_audio(input_path, ...) on a directory: lines 31-35, and
\* _batch_convert up to its loop (lines 173-198); the arguments that are
\* only handed on to _single_convert keep their defaults
ConvertAudioDir ==
  /\ pc = "idle"
  /\ \E input_path \in {InputDir},
        output_format \in Formats,
        output_path \in OutputDirs,
        file_pattern \in FilePatterns :
       LET a == Args("convert_audio", input_path, output_format, output_path,
                     Some(5), None, None, None, None, file_pattern)
           matched == Glob(fs.listing, file_pattern)
       IN  /\ IsDir(input_path)
           /\ call' = a
           /\ fs' = IF output_path # None
                    THEN [fs EXCEPT !.dirs = @ \cup {output_path[1]}]
                    ELSE fs
           /\ audio_files' = matched
           /\ IF matched = <<>>
              THEN /\ pc' = "done"
                   /\ result' = RetList(<<>>)
                   /\ UNCHANGED i
              ELSE /\ pc' = "loop"
                   /\ i' = 1
                   /\ UNCHANGED result
  /\ UNCHANGED <<successful_conversions, calls, format_settings>>

\* the test of line 221 turned around: what failed is appended
AppendFailed(successful, ret) ==
  IF ret # None /\ ret[1] # <<>> THEN successful ELSE Append(successful, <<>>)

\* lines 221-222: if result: successful_conversions.append(result)
AppendResult(successful, ret) ==
  IF ret # None /\ ret[1] # <<>> THEN Append(successful, ret[1]) ELSE successful

\* line 203: audio_path.lower().endswith(output_extension)
Skipped(audio_path, output_format) ==
  EndsWith(Lower(audio_path), output_extension(output_format))

\* lines 206-213
BatchOutputPath(audio_path, output_format, output_dir) ==
  IF output_dir # None
  THEN Join(output_dir[1],
            SplitextRoot(Basename(audio_path))
              \o output_extension(output_format))
  ELSE SplitextRoot(audio_path) \o output_extension(output_format)

\* one turn of the loop of _batch_convert for a file in the target format:
\* lines 199-204
BatchSkip ==
  /\ pc = "loop"
  /\ i <= Len(audio_files)
  /\ Skipped(audio_files[i], call.output_format)
  /\ i' = i + 1
  /\ UNCHANGED <<pc, call, fs, audio_files, successful_conversions, calls,
                 result, format_settings>>

\* one turn of the loop of _batch_convert for any other file: lines
\* 199-222, and the whole of _single_convert
BatchConvert ==
  /\ pc = "loop"
  /\ i <= Len(audio_files)
  /\ ~Skipped(audio_files[i], call.output_format)
  /\ \E tool \in ToolOutcomes :
       LET audio_path == audio_files[i]
           output_path == BatchOutputPath(audio_path, call.output_format,
                                          call.output_path)
           r == single_convert(audio_path, Some(output_path), call, tool)
       IN  /\ calls' = Append(calls, r)
           /\ IF r.ended = "raised"
              THEN pc' = "raised" /\ UNCHANGED <<i, successful_conversions>>
              ELSE /\ pc' = pc
                   /\ i' = i + 1
                   /\ successful_conversions' =
                        AppendResult(successful_conversions, r.ret)
  /\ UNCHANGED <<call, fs, audio_files, result, format_settings>>

\* lines 224-225
BatchReturn ==
  /\ pc = "loop"
  /\ i > Len(audio_files)
  /\ pc' = "done"
  /\ result' = RetList(successful_conversions)
  /\ UNCHANGED <<call, fs, audio_files, i, successful_conversions, calls,
                 format_settings>>

---------------------------------------------------------------------------
(* Calls on files, and of the resolver alone; the directory is empty.      *)

InitFile == Idle(<<>>)

NextFile ==
  \/ GetFormatSettings
  \/ ConvertAudioFile

SpecFile == InitFile /\ [][NextFile]_vars

---------------------------------------------------------------------------
(* Calls on a directory, over every listing of at most MaxFiles entries.   *)

InitDir == \E listing \in Listings : Idle(listing)

NextDir ==
  \/ ConvertAudioDir
  \/ BatchSkip
  \/ BatchConvert
  \/ BatchReturn

SpecDir == InitDir /\ [][NextDir]_vars

---------------------------------------------------------------------------
(* Properties of the calls on files and of the resolver (SpecFile).        *)

\* the value of a string of decimal digits
RECURSIVE Decimal(_)
Decimal(s) ==
  IF s = <<>> THEN 0
  ELSE 10 * Decimal(SubSeq(s, 1, Len(s) - 1))
         + (CHOOSE d \in 0..9 : Digits[d + 1] = s[Len(s)])

\* the spellings of mp3 and ogg among Formats
QualityFormats == { S_mp3, <<"M","p","3">>, S_ogg, <<"O","G","G">> }

\* C8: for mp3 and ogg in any letter case and every compression level, the
\* resolver emits -q:a with the level clamped to 0..9: 0 below 0, 9 above
\* 9, the level itself in between.
C8_QualityClamped ==
  ( /\ pc = "resolved"
    /\ call.output_format \in QualityFormats
    /\ call.compression_level # None )
  => LET level == call.compression_level[1]
         args == format_settings.format_args
     IN  /\ Len(args) = 2
         /\ args[1] = S_qa
         /\ args[2] # <<>>
         /\ \A k \in 1..Len(args[2]) : \E d \in 1..10 : Digits[d] = args[2][k]
         /\ Decimal(args[2]) = (IF level < 0 THEN 0
                                ELSE IF level > 9 THEN 9
                                ELSE level)

\* C8 is met: a level below 0 was resolved for OGG and came out as 0
C8_Witness ==
  /\ pc = "resolved"
  /\ call.output_format = <<"O","G","G">>
  /\ call.compression_level # None
  /\ call.compression_level[1] < 0
  /\ format_settings.format_args = <<S_qa, <<"0">>>>

\* the calls of _single_convert that ran the tool
Invoked == { k \in 1..Len(calls) : calls[k].invoked }

\* the extra arguments as given: none for None
GivenExtra == IF call.extra_args = None THEN <<>> ELSE call.extra_args[1]

\* the spellings of flac and of wav among Formats
FlacFormats == { S_flac, <<"F","L","A","C">> }

WavFormats == { S_wav, <<"W","a","v">> }

\* the positions of cmd, after the resolver's codec and before the extra
\* arguments, that hold a sample format or a codec selection
OverrideAt(cmd) ==
  { k \in 6..(Len(cmd) - 2 - Len(GivenExtra)) :
      cmd[k] \in {S_sample_fmt, S_ca} }

\* C9: a bit-depth override is in the command if and only if bit_depth is
\* 16, 24 or 32 and the format is flac or wav; flac gets -sample_fmt s16 for
\* 16 and s32 for 24 and 32; wav gets -c:a pcm_s16le, pcm_s24le, pcm_s32le,
\* after the resolver's -c:a pcm_s16le.
C9_BitDepthOverride ==
  \A k \in Invoked :
    LET cmd == calls[k].cmd
        depth == IF call.bit_depth = None THEN 0 ELSE call.bit_depth[1]
        flac == call.output_format \in FlacFormats
        wav == call.output_format \in WavFormats
        at == OverrideAt(cmd)
    IN  /\ (at # {}) <=> (depth \in {16, 24, 32} /\ (flac \/ wav))
        /\ Cardinality(at) <= 1
        /\ \A j \in at :
             /\ flac => /\ cmd[j] = S_sample_fmt
                        /\ cmd[j + 1] = (IF depth = 16 THEN S_s16 ELSE S_s32)
             /\ wav => /\ cmd[j] = S_ca
                       /\ cmd[j + 1] = (IF depth = 16 THEN S_pcm_s16le
                                        ELSE IF depth = 24 THEN S_pcm_s24le
                                        ELSE S_pcm_s32le)
                       /\ cmd[4] = S_ca
                       /\ cmd[5] = S_pcm_s16le

\* C9 is met: a 24-bit Wav was asked for, and pcm_s24le follows the
\* resolver's codec
C9_Witness ==
  /\ pc = "done"
  /\ call.output_format = <<"W","a","v">>
  /\ call.bit_depth = Some(24)
  /\ Invoked = {1}
  /\ \E j \in 6..(Len(calls[1].cmd) - 1) :
       calls[1].cmd[j] = S_ca /\ calls[1].cmd[j + 1] = S_pcm_s24le

\* C6: the command is [ffmpeg, -i, input, codec, format arguments, -ar and
\* the rate if given, -ac and the channels if given, the bit-depth override
\* if any, the extra arguments as given, output]: the extra arguments come
\* after every computed argument and the output path is last.
C6_CommandForm ==
  \A k \in Invoked :
    LET cmd == calls[k].cmd
        n == Len(cmd)
        e == Len(GivenExtra)
        m == SubSeq(cmd, 4, n - 1 - e)
        nsr == IF call.sample_rate # None THEN 2 ELSE 0
        nch == IF call.channels # None THEN 2 ELSE 0
    IN  /\ n >= 6 + e
        /\ cmd[1] = S_ffmpeg
        /\ cmd[2] = S_i
        /\ cmd[3] = calls[k].input_file
        /\ cmd[n] = calls[k].output_file
        /\ SubSeq(cmd, n - e, n - 1) = GivenExtra
        /\ m[1] = S_ca
        /\ \E nfa \in {0, 2}, nbd \in {0, 2} :
             /\ Len(m) = 2 + nfa + nsr + nch + nbd
             /\ nfa = 2 => m[3] \in {S_compression_level, S_qa, S_ba}
             /\ nsr = 2 => /\ m[3 + nfa] = S_ar
                           /\ Decimal(m[4 + nfa]) = call.sample_rate[1]
             /\ nch = 2 => /\ m[3 + nfa + nsr] = S_ac
                           /\ Decimal(m[4 + nfa + nsr]) = call.channels[1]
             /\ nbd = 2 => m[3 + nfa + nsr + nch] \in {S_sample_fmt, S_ca}

\* C6 is met: a command with every optional part
C6_Witness ==
  /\ pc = "done"
  /\ Invoked = {1}
  /\ call.compression_level # None
  /\ call.sample_rate # None
  /\ call.channels # None
  /\ call.bit_depth = Some(16)
  /\ call.output_format = S_flac
  /\ Len(GivenExtra) = 2
  /\ Len(calls[1].cmd) = 16

\* the canonical extension of each of Formats: the eight known formats in
\* any letter case, and .{format} as spelled for the others
CanonicalExtension(output_format) ==
  CASE output_format \in {S_flac, <<"F","L","A","C">>} -> <<".","f","l","a","c">>
    [] output_format \in {S_mp3, <<"M","p","3">>} -> <<".","m","p","3">>
    [] output_format = S_m4a -> <<".","m","4","a">>
    [] output_format \in {S_wav, <<"W","a","v">>} -> <<".","w","a","v">>
    [] output_format \in {S_ogg, <<"O","G","G">>} -> <<".","o","g","g">>
    [] output_format = S_aac -> <<".","a","a","c">>
    [] output_format = S_wma -> <<".","w","m","a">>
    [] output_format = S_alac -> <<".","m","4","a">>
    [] output_format = <<"o","p","u","s">> -> <<".","o","p","u","s">>
    [] output_format = <<"O","P","U","S">> -> <<".","O","P","U","S">>

\* e is an extension that ends the path root \o e: a dot, then neither dot
\* nor separator, after a last component of root that is not all dots
IsExtension(root, e) ==
  /\ e # <<>>
  /\ e[1] = "."
  /\ \A j \in 2..Len(e) : e[j] \notin {".", "/"}
  /\ \E j \in 1..Len(root) :
       /\ root[j] \notin {".", "/"}
       /\ \A m \in j..Len(root) : root[m] # "/"

\* path and replaced differ only in that the extension of path, if it has
\* one, is replaced by ext; ext is appended if it has none
ExtensionReplaced(path, ext, replaced) ==
  \E n \in 0..Len(path) :
    LET root == SubSeq(path, 1, n)
        e == SubSeq(path, n + 1, Len(path))
    IN  /\ replaced = root \o ext
        /\ \/ IsExtension(root, e)
           \/ /\ e = <<>>
              /\ \A m \in 0..Len(path) :
                   ~IsExtension(SubSeq(path, 1, m),
                                SubSeq(path, m + 1, Len(path)))

\* C7: with no output path given, the output path is the input path with
\* its extension replaced by the canonical extension of the format, and
\* song.wav to flac gives song.flac.
C7_DefaultOutputPath ==
  \A k \in Invoked :
    call.output_path = None
    => /\ ExtensionReplaced(call.input_path,
                            CanonicalExtension(call.output_format),
                            calls[k].output_file)
       /\ calls[k].cmd[Len(calls[k].cmd)] = calls[k].output_file
       /\ ( /\ call.input_path = <<"s","o","n","g",".","w","a","v">>
            /\ call.output_format = S_flac )
          => calls[k].output_file = <<"s","o","n","g",".","f","l","a","c">>

\* C7 is met: song.wav was converted to FLAC with no output path, into
\* song.flac
C7_Witness ==
  /\ pc = "done"
  /\ Invoked = {1}
  /\ call.output_path = None
  /\ call.input_path = <<"s","o","n","g",".","w","a","v">>
  /\ call.output_format = <<"F","L","A","C">>
  /\ result = RetStr(<<"s","o","n","g",".","f","l","a","c">>)

\* C4: when nothing is at the input path, convert_audio returns None and the
\* tool is not run, whatever the other arguments.
C4_MissingInput ==
  ( /\ call.fn = "convert_audio"
    /\ call.input_path \notin fs.files \cup fs.dirs )
  => /\ pc = "done"
     /\ result = RetNone
     /\ Len(calls) = 1
     /\ Invoked = {}
     /\ calls[1].cmd = <<>>

\* C4 is met: convert_audio was called on the missing path with an output
\* path and extra arguments given, and returned None
C4_Witness ==
  /\ pc = "done"
  /\ call.fn = "convert_audio"
  /\ call.input_path = MissingFile
  /\ call.output_path # None
  /\ call.extra_args # None
  /\ result = RetNone
  /\ Invoked = {}

---------------------------------------------------------------------------
(* Properties of the calls on a directory (SpecDir).                       *)

\* no entry of the directory has a name the pattern matches
NothingMatches ==
  \A k \in 1..Len(fs.listing) :
    ~GlobMatch(call.file_pattern, fs.listing[k].name)

\* C5: when the pattern matches no entry of the directory, the batch
\* returns an empty list and the tool is never run.
C5_NoMatchingFiles ==
  (call.fn = "convert_audio" /\ NothingMatches)
  => /\ pc = "done"
     /\ result = RetList(<<>>)
     /\ calls = <<>>

\* C5 is met: the directory has entries, none matches, the batch returned
\* the empty list
C5_Witness ==
  /\ pc = "done"
  /\ call.fn = "convert_audio"
  /\ Len(fs.listing) >= 2
  /\ NothingMatches
  /\ result = RetList(<<>>)

\* the matched files the loop does not skip, in enumeration order
NotSkipped ==
  SelectSeq(audio_files, LAMBDA f : ~Skipped(f, call.output_format))

\* the output paths of the calls whose tool run exited with status zero, in
\* the order of the calls
ExitedZero ==
  LET ok == SelectSeq(calls, LAMBDA c : c.invoked /\ c.returncode = 0)
  IN  [k \in 1..Len(ok) |-> ok[k].output_file]

\* C2: the list the batch returns holds exactly the output paths of the
\* matched files that were not skipped and whose tool run exited with zero,
\* one each, in enumeration order.
C2_ReturnedList ==
  (pc = "done" /\ call.fn = "convert_audio")
  => /\ result.tag = "list"
     /\ result.val = ExitedZero
     /\ Len(calls) = Len(NotSkipped)
     /\ \A k \in 1..Len(calls) :
          /\ calls[k].input_file = NotSkipped[k]
          /\ calls[k].output_file =
               BatchOutputPath(NotSkipped[k], call.output_format,
                               call.output_path)

\* C2 is met: of three matched files one was skipped, then one failed, then
\* one was converted, and the list returned holds the last one's output
\* path alone
C2_Witness ==
  /\ pc = "done"
  /\ Len(audio_files) = 3
  /\ Skipped(audio_files[1], call.output_format)
  /\ Len(calls) = 2
  /\ calls[1].invoked /\ calls[1].returncode # 0
  /\ calls[2].invoked /\ calls[2].returncode = 0
  /\ result = RetList(<<calls[2].output_file>>)

\* C1, as claimed: a tool run that exits nonzero makes _single_convert
\* return None, the loop is never left before its end, and at the end every
\* matched file that was not skipped has been handed to the tool once, in
\* enumeration order.
C1_FailureIsNotFatal ==
  /\ \A k \in 1..Len(calls) :
       (calls[k].invoked /\ calls[k].returncode # 0)
       => (calls[k].ended = "returned" /\ calls[k].ret = None)
  /\ pc # "raised"
  /\ (pc = "done" /\ call.fn = "convert_audio")
     => LET ran == SelectSeq(calls, LAMBDA c : c.invoked)
        IN  [k \in 1..Len(ran) |-> ran[k].input_file] = NotSkipped

\* s ends with suffix when letter case is ignored
EndsWithIgnoringCase(s, suffix) == EndsWith(Lower(s), Lower(suffix))

\* C3, as claimed: a file whose name ends, case ignored, with the
\* extension of the target format is never passed to _single_convert.
C3_TargetFormatSkipped ==
  \A k \in 1..Len(calls) :
    ~EndsWithIgnoringCase(calls[k].input_file,
                          CanonicalExtension(call.output_format))

\* C10, as claimed: _single_convert is never called with an output path
\* equal to its input path.
C10_OutputIsNotInput ==
  \A k \in 1..Len(calls) : calls[k].output_file # calls[k].input_file

====
